---- MODULE Spec2Model ----
(***************************************************************************)
(* State-machine model of the rhythm generator (src/rythm-g.py) and of the *)
(* older generator (src/RythmG_1.py).                                      *)
(*                                                                         *)
(* Python lists are sequences; Python index i is sequence index i + 1.     *)
(* Audio buffers are sequences of chunks measured in frames at            *)
(* SAMPLE_RATE; amplitudes are not modelled, only which samples a chunk    *)
(* carries.  fill_frequency is a rational n / 20 given by its numerator n; *)
(* NOTE_TYPES values are given in eighths of a beat.                       *)
(***************************************************************************)
EXTENDS Integers, Sequences, FiniteSets, TLC

VARIABLES
  gp,                  \* a call of generate_pattern on its own
  gm,                  \* a call of generate_midi on its own
  ls,                  \* a call of load_samples on its own
  pp,                  \* a call of play_preview on its own
  g1,                  \* a call of the older generate_rhythm (src/RythmG_1.py)
  pc,                  \* position of the run in main / generate_rhythm / export_rhythm
  cfg,                 \* merged configuration, command-line flags and environment
  instruments,         \* config["instruments"], the list generate_rhythm receives
  mix,                 \* config["volumes"] and config["pan_settings"]
  gr,                  \* generate_rhythm's parameters after validation
  instrument_patterns,
  instrument_samples,
  instrument_stems,
  beat_layers,
  has_content,         \* has_content at the end of each beat iteration
  ret,                 \* the tuple generate_rhythm returned
  exported,            \* the files export_rhythm wrote, in order
  played,              \* the play_preview calls and their outcomes
  faults,              \* overlay, normalize and write failures so far
  err,                 \* the exception that ended the run, if any
  er,                  \* what the call of export_rhythm gave its caller
  log,                 \* the random draws and the failures of this run
  first                \* the run before this one, when the program is run again

unitVars == <<gp, gm, ls, pp, g1>>
runVars ==
  <<pc, cfg, instruments, mix, gr, instrument_patterns, instrument_samples,
    instrument_stems, beat_layers, has_content, ret, exported, played, faults, err,
    er, log, first>>
vars == <<unitVars, runVars>>

(***************************************************************************)
(* Bounds of the model                                                     *)
(***************************************************************************)
MaxLen == 6
MaxBaseLen == 3
MaxMidiLen == 3
MaxDirs == 2
MaxExtendLen == 9
MaxFaults == 1

(***************************************************************************)
(* Program constants                                                       *)
(***************************************************************************)
SAMPLE_RATE == 44100
MIN_BPM == 20
MAX_BPM == 300
MIN_SWING == -50
MAX_SWING == 50
DEFAULT_VOLUME == 80
MinPatternLength == 4
MaxPatternLength == 16
DefaultPatternLength == 8
MidiBaseNote == 36
TicksPerBeat == 480
ToneDurationMs == 200
ToneBaseFrequency == 200
ToneFrequencyStep == 100
MatchCutoffPercent == 80
PreviewTimeoutTicks == 200
PlaybackTimeoutTicks == 1000

NOTE_TYPES ==
  ("whole" :> 32) @@ ("half" :> 16) @@ ("quarter" :> 8) @@ ("eighth" :> 4)
    @@ ("sixteenth" :> 2) @@ ("thirty-second" :> 1)

COMPLEXITY_LEVELS == {"simple", "medium", "complex"}
TIME_SIGNATURES == {"4/4", "3/4", "6/8"}
SUBDIVISIONS == {"straight", "triplet"}

AVAILABLE_INSTRUMENTS ==
  <<"kick", "snare", "hihat", "bass", "synth", "guitar", "clap",
    "tambourine", "percussion">>

STYLE_CONFIGS ==
  [hiphop |->
     [bpm |-> 85,
      pattern |->
        [kick |-> <<1, 0, 1, 0, 1, 0, 1, 0>>,
         snare |-> <<0, 0, 0, 0, 1, 0, 0, 0>>,
         hihat |-> <<1, 1, 1, 1, 1, 1, 1, 1>>,
         bass |-> <<1, 0, 0, 0, 1, 0, 0, 0>>,
         synth |-> <<0, 1, 0, 1, 0, 1, 0, 1>>,
         guitar |-> <<0, 0, 1, 0, 0, 0, 1, 0>>,
         percussion |-> <<0, 0, 0, 1, 0, 0, 0, 1>>]],
   lofi |->
     [bpm |-> 70,
      pattern |->
        [kick |-> <<1, 0, 0, 0, 1, 0, 0, 0>>,
         snare |-> <<0, 0, 0, 0, 1, 0, 0, 0>>,
         hihat |-> <<1, 0, 1, 0, 1, 0, 1, 0>>,
         bass |-> <<1, 0, 0, 0, 0, 0, 0, 0>>,
         synth |-> <<1, 0, 1, 0, 1, 0, 1, 0>>,
         guitar |-> <<0, 0, 0, 0, 1, 0, 0, 0>>,
         percussion |-> <<0, 0, 0, 1, 0, 0, 0, 0>>]],
   edm |->
     [bpm |-> 128,
      pattern |->
        [kick |-> <<1, 0, 1, 0, 1, 0, 1, 0>>,
         snare |-> <<0, 0, 0, 0, 1, 0, 0, 0>>,
         hihat |-> <<1, 1, 1, 1, 1, 1, 1, 1>>,
         bass |-> <<1, 1, 1, 1, 1, 1, 1, 1>>,
         synth |-> <<1, 0, 0, 0, 1, 0, 0, 0>>,
         guitar |-> <<0, 0, 0, 0, 0, 0, 0, 0>>,
         percussion |-> <<0, 0, 0, 0, 0, 0, 0, 1>>]],
   pop |->
     [bpm |-> 120,
      pattern |->
        [kick |-> <<1, 0, 1, 0, 1, 0, 1, 0>>,
         snare |-> <<0, 0, 0, 0, 1, 0, 0, 0>>,
         hihat |-> <<1, 1, 1, 1, 1, 1, 1, 1>>,
         bass |-> <<1, 0, 0, 0, 1, 0, 0, 0>>,
         synth |-> <<1, 0, 1, 0, 1, 0, 1, 0>>,
         guitar |-> <<0, 1, 0, 1, 0, 1, 0, 1>>,
         percussion |-> <<0, 0, 0, 1, 0, 0, 0, 1>>]]]

(***************************************************************************)
(* Helpers for Python built-ins                                            *)
(***************************************************************************)
Range(s) == {s[i] : i \in DOMAIN s}

\* list.index(x) as a Python (0-based) index; x is in the list
IndexOf(s, x) == (CHOOSE i \in DOMAIN s : s[i] = x /\ \A j \in 1..(i - 1) : s[j] # x) - 1

\* int(a / b) for b # 0: Python truncates toward zero
TruncDiv(a, b) ==
  LET q == (IF a < 0 THEN -a ELSE a) \div (IF b < 0 THEN -b ELSE b)
  IN  IF (a < 0) = (b < 0) THEN q ELSE -q

RECURSIVE ListTimes(_, _)
\* list * k
ListTimes(s, k) == IF k <= 0 THEN <<>> ELSE s \o ListTimes(s, k - 1)

RECURSIVE SumSeq(_)
SumSeq(s) == IF s = <<>> THEN 0 ELSE Head(s) + SumSeq(Tail(s))

\* all 0/1 sequences of length n
BitSeqs(n) == [1..n -> {0, 1}]

(***************************************************************************)
(* Audio buffers.  AudioSegment.silent(duration, frame_rate) holds         *)
(* int(frame_rate * duration / 1000) frames and len() of a segment is      *)
(* round(1000 * frames / frame_rate) milliseconds.                         *)
(***************************************************************************)
FramesOf(duration_ms) == ((SAMPLE_RATE \div 100) * duration_ms) \div 10

\* len(segment) in milliseconds of a frame count: 1000 f / 44100 = 10 f / 441
\* rounded (there are no ties: 20 f = 441 (2 k + 1) has no solution)
MsOf(frames) == (20 * frames + SAMPLE_RATE \div 100) \div (SAMPLE_RATE \div 50)

(***************************************************************************)
(* The sample source: a samples root that may be missing, holding          *)
(* directories, each a listing of files.  A directory name is the folder   *)
(* name of an instrument in one of three forms: the mapped folder name     *)
(* itself ("exact"), a near spelling of it ("near", e.g. kick for kicks) or *)
(* an unrelated name ("far"); upper tells whether the on-disk name has     *)
(* upper-case letters.                                                     *)
(***************************************************************************)
INSTRUMENT_TO_FOLDER ==
  [kick |-> "kicks", snare |-> "snares", hihat |-> "hihats", bass |-> "bass",
   synth |-> "synth", guitar |-> "guitar", clap |-> "clap",
   tambourine |-> "tambourine", percussion |-> "percussion"]

DirName(stem, form, upper) == [stem |-> stem, form |-> form, upper |-> upper]

\* str.lower()
Lower(name) == [name EXCEPT !.upper = FALSE]

\* difflib's similarity of two lower-case names, in percent
Ratio(a, b) ==
  IF a = b THEN 100
  ELSE IF a.stem = b.stem /\ {a.form, b.form} = {"exact", "near"} THEN 88
  ELSE 30

\* get_close_matches(word, possibilities, n=1, cutoff=0.8)
get_close_matches(word, possibilities) ==
  LET close == {q \in possibilities : Ratio(word, q) >= MatchCutoffPercent}
  IN  IF close = {} THEN <<>>
      ELSE <<CHOOSE q \in close : \A r \in close : Ratio(word, r) <= Ratio(word, q)>>

\* the directory a path with this name opens: the same name, or on a
\* case-insensitive file system one that differs in case only
Resolve(dirs, name, case_sensitive) ==
  {d \in DOMAIN dirs : d = name \/ (~case_sensitive /\ Lower(d) = Lower(name))}

\* generate_synthetic_tone (lines 170-178)
generate_synthetic_tone(frequency, numpy_available) ==
  IF ~numpy_available
    THEN [src |-> "silence", frames |-> FramesOf(ToneDurationMs), freq |-> 0]
    ELSE [src |-> "tone", frames |-> FramesOf(ToneDurationMs), freq |-> frequency]

ToneFor(instrument, numpy_available) ==
  generate_synthetic_tone(
    ToneBaseFrequency + ToneFrequencyStep * IndexOf(AVAILABLE_INSTRUMENTS, instrument),
    numpy_available)

\* lines 209-221: the decodable .wav files of a listing, in listing order
RECURSIVE LoadedFiles(_)
LoadedFiles(files) ==
  IF files = <<>> THEN <<>>
  ELSE (IF Head(files).wav /\ Head(files).decodes
          THEN <<[src |-> "file", frames |-> FramesOf(Head(files).ms), freq |-> 0]>>
          ELSE <<>>)
       \o LoadedFiles(Tail(files))

\* load_samples (lines 185-226): [raised, samples]
load_samples(instrument, disk, numpy_available) ==
  LET folder_name == DirName(INSTRUMENT_TO_FOLDER[instrument], "exact", FALSE)
      tone == [raised |-> "none", samples |-> <<ToneFor(instrument, numpy_available)>>]
      available_folders == {Lower(d) : d \in DOMAIN disk.dirs}
      matches == get_close_matches(folder_name, available_folders)
      chosen == IF folder_name \in available_folders THEN folder_name ELSE matches[1]
      opened == Resolve(disk.dirs, chosen, disk.case_sensitive)
      files == disk.dirs[CHOOSE d \in opened : TRUE]
  IN  IF ~disk.root THEN tone
      ELSE IF folder_name \notin available_folders /\ matches = <<>> THEN tone
      ELSE IF opened = {}
        THEN [raised |-> "FileNotFoundError", samples |-> <<>>]
      ELSE IF files = <<>> THEN tone
      ELSE IF LoadedFiles(files) = <<>> THEN tone
      ELSE [raised |-> "none", samples |-> LoadedFiles(files)]

(***************************************************************************)
(* extend_base_pattern (lines 307-311)                                     *)
(***************************************************************************)
ExtendWithoutRemainder(base_pattern, pattern_length) ==
  IF Len(base_pattern) >= pattern_length
    THEN SubSeq(base_pattern, 1, pattern_length)
    ELSE ListTimes(base_pattern, pattern_length \div Len(base_pattern))

extend_base_pattern(base_pattern, pattern_length) ==
  IF Len(base_pattern) >= pattern_length
    THEN SubSeq(base_pattern, 1, pattern_length)
    ELSE ListTimes(base_pattern, pattern_length \div Len(base_pattern))
           \o SubSeq(base_pattern, 1, pattern_length % Len(base_pattern))

(***************************************************************************)
(* generate_pattern (lines 314-327).  The random draws of one call are     *)
(* given as a sequence, one draw per position: for "simple" the draw is    *)
(* the outcome of random.random() < 0.3 (1 or 0); otherwise draw 2 means   *)
(* random.random() is below the threshold (the base pattern is kept) and   *)
(* draw 0 or 1 is the value of random.choice([0, 1]).                      *)
(* The result is [raised, pattern]: raised names the uncaught exception.   *)
(***************************************************************************)
DrawSet(complexity) == IF complexity = "simple" THEN {0, 1} ELSE {0, 1, 2}

FillIndicesLastOnly(pattern_length, step) ==
  IF step > 0 THEN {} ELSE {pattern_length - 1} \ {0}

\* range(pattern_length - 1, 0, step) as a set of Python indices, step # 0
FillIndices(pattern_length, step) ==
  IF step > 0
    THEN {}
    ELSE {i \in 1..(pattern_length - 1) :
            \E k \in 0..pattern_length : i = (pattern_length - 1) + k * step}

DrawnPattern(base, draws) ==
  [i \in DOMAIN draws |-> IF draws[i] = 2 THEN base[i] ELSE draws[i]]

ForceSkipped(pattern, indices) == pattern

Force(pattern, indices) ==
  [i \in DOMAIN pattern |-> IF (i - 1) \in indices THEN 1 ELSE pattern[i]]

DownbeatSkipped(pattern) == pattern

\* line 326: pattern[0] = 1
Downbeat(pattern) == Force(pattern, {0})

\* int(1 / fill_frequency) of line 324, for fill_frequency # 0
FillStride(fill_frequency) == TruncDiv(20, fill_frequency)

generate_pattern(complexity, pattern_length, base_pattern, fill_frequency, draws) ==
  LET base == extend_base_pattern(base_pattern, pattern_length)
  IN  IF complexity = "simple"
        THEN [raised |-> "none", pattern |-> Downbeat(draws)]
      ELSE IF complexity = "medium"
        THEN [raised |-> "none",
              pattern |-> Downbeat(Force(Force(DrawnPattern(base, draws), {0}),
                                         {pattern_length \div 2}))]
      ELSE IF fill_frequency = 0
        THEN [raised |-> "ZeroDivisionError", pattern |-> <<>>]
      ELSE IF FillStride(fill_frequency) = 0
        THEN [raised |-> "ValueError", pattern |-> <<>>]
      ELSE [raised |-> "none",
            pattern |-> Downbeat(Force(DrawnPattern(base, draws),
                                       FillIndices(pattern_length,
                                                   -FillStride(fill_frequency))))]

(***************************************************************************)
(* generate_midi (lines 330-374)                                           *)
(***************************************************************************)
\* mido.bpm2tempo(bpm) = int(round(60 * 1e6 / bpm)) for bpm # 0 (line 339)
Tempo(bpm) ==
  LET q == 60000000 \div bpm
      r == 60000000 % bpm
  IN  IF 2 * r > bpm \/ (2 * r = bpm /\ q % 2 = 1) THEN q + 1 ELSE q

RECURSIVE PatternEventsOffAtStart(_, _, _, _)
PatternEventsOffAtStart(pattern, i, midi_note, note_duration) ==
  IF i > Len(pattern) THEN <<>>
  ELSE (IF pattern[i] # 0
          THEN << [time |-> (i - 1) * note_duration,
                   msg |-> [type |-> "note_on", note |-> midi_note, velocity |-> 100]],
                  [time |-> (i - 1) * note_duration,
                   msg |-> [type |-> "note_off", note |-> midi_note, velocity |-> 0]] >>
          ELSE <<>>)
       \o PatternEventsOffAtStart(pattern, i + 1, midi_note, note_duration)

\* lines 346-352: the (time, message) pairs of one instrument's pattern
RECURSIVE PatternEvents(_, _, _, _)
PatternEvents(pattern, i, midi_note, note_duration) ==
  IF i > Len(pattern) THEN <<>>
  ELSE (IF pattern[i] # 0
          THEN << [time |-> (i - 1) * note_duration,
                   msg |-> [type |-> "note_on", note |-> midi_note, velocity |-> 100]],
                  [time |-> (i - 1) * note_duration + note_duration,
                   msg |-> [type |-> "note_off", note |-> midi_note, velocity |-> 0]] >>
          ELSE <<>>)
       \o PatternEvents(pattern, i + 1, midi_note, note_duration)

RECURSIVE BuildEvents(_, _)
BuildEvents(items, note_duration) ==
  IF items = <<>> THEN <<>>
  ELSE PatternEvents(Head(items).pattern, 1,
                     MidiBaseNote + IndexOf(AVAILABLE_INSTRUMENTS, Head(items).inst),
                     note_duration)
       \o BuildEvents(Tail(items), note_duration)

RECURSIVE InsertBeforeEqualTime(_, _)
InsertBeforeEqualTime(sorted, e) ==
  IF sorted = <<>> THEN <<e>>
  ELSE IF Head(sorted).time < e.time
    THEN <<Head(sorted)>> \o InsertBeforeEqualTime(Tail(sorted), e)
    ELSE <<e>> \o sorted

\* list.sort(key = time) is stable: an event goes after the equal-time ones
RECURSIVE InsertByTime(_, _)
InsertByTime(sorted, e) ==
  IF sorted = <<>> THEN <<e>>
  ELSE IF Head(sorted).time <= e.time
    THEN <<Head(sorted)>> \o InsertByTime(Tail(sorted), e)
    ELSE <<e>> \o sorted

RECURSIVE SortNext(_, _)
SortNext(events, sorted) ==
  IF events = <<>> THEN sorted
  ELSE SortNext(Tail(events), InsertByTime(sorted, Head(events)))

SortEventsSkipped(events) == events

\* line 355: events.sort(key=lambda x: x[0])
SortEvents(events) == SortNext(events, <<>>)

\* lines 356-360: delta times between successive events
TrackMessages(events) ==
  [k \in DOMAIN events |->
     [type |-> events[k].msg.type, note |-> events[k].msg.note,
      velocity |-> events[k].msg.velocity,
      time |-> events[k].time - (IF k = 1 THEN 0 ELSE events[k - 1].time)]]

\* line 340: the set_tempo meta message opens the track
TempoMessage(bpm) == [type |-> "set_tempo", tempo |-> Tempo(bpm), time |-> 0]

NoteDuration(note_type, subdivision) ==
  IF subdivision = "triplet"
    THEN (TicksPerBeat * NOTE_TYPES[note_type] * 2) \div (8 * 3)
    ELSE (TicksPerBeat * NOTE_TYPES[note_type]) \div 8

\* the outcome of one generate_midi call; items is instrument_patterns.items()
generate_midi(items, bpm, note_type, subdivision, mido_available, save_ok) ==
  IF ~mido_available
    THEN [status |-> "skipped", events |-> <<>>, track |-> <<>>]
  ELSE IF bpm = 0
    THEN [status |-> "failed", events |-> <<>>, track |-> <<>>]
  ELSE IF note_type \notin DOMAIN NOTE_TYPES
    THEN [status |-> "failed", events |-> <<>>, track |-> <<>>]
  ELSE IF \E k \in DOMAIN items : items[k].inst \notin Range(AVAILABLE_INSTRUMENTS)
    THEN [status |-> "failed", events |-> <<>>, track |-> <<>>]
  ELSE LET events == SortEvents(BuildEvents(items, NoteDuration(note_type, subdivision)))
       IN  [status |-> IF save_ok THEN "saved" ELSE "failed",
            events |-> events,
            track |-> <<TempoMessage(bpm)>> \o TrackMessages(events)]

\* line 446: base_patterns.get(inst, [0] * 8)
DefaultBasePattern == <<0, 0, 0, 0, 0, 0, 0, 0>>

\* the files a sample directory may hold
WavShort == [wav |-> TRUE, decodes |-> TRUE, ms |-> 120]
WavLong == [wav |-> TRUE, decodes |-> TRUE, ms |-> 2500]
WavBroken == [wav |-> TRUE, decodes |-> FALSE, ms |-> 0]
TextFile == [wav |-> FALSE, decodes |-> FALSE, ms |-> 0]

GpIdle == [phase |-> "idle"]
GmIdle == [phase |-> "idle"]
LsIdle == [phase |-> "idle"]
PpIdle == [pc |-> "idle"]
G1Idle == [phase |-> "idle"]

(***************************************************************************)
(* Audio buffers as sequences of chunks.  A chunk is a run of frames with  *)
(* the samples mixed into it (layers; none for silence) and the beat index *)
(* it was created for (-1 for padding).                                    *)
(***************************************************************************)
Chunk(frames, layers, beat) == [frames |-> frames, layers |-> layers, beat |-> beat]

\* create_silent_segment (lines 181-182)
create_silent_segment(duration_ms) ==
  IF FramesOf(duration_ms) <= 0
    THEN <<>>
    ELSE <<Chunk(FramesOf(duration_ms), {}, -1)>>

Frames(buffer) == SumSeq([k \in DOMAIN buffer |-> buffer[k].frames])

\* len(buffer)
LenMs(buffer) == MsOf(Frames(buffer))

\* dict.get(key, default)
Get(dict, key, default) == IF key \in DOMAIN dict THEN dict[key] ELSE default

\* the keys of a dict in insertion order, given the list they were inserted from
RECURSIVE KeysInOrder(_, _)
KeysInOrder(list, keys) ==
  IF list = <<>> THEN <<>>
  ELSE IF Head(list) \in keys
    THEN <<Head(list)>> \o KeysInOrder(Tail(list), keys \ {Head(list)})
    ELSE KeysInOrder(Tail(list), keys)

(***************************************************************************)
(* generate_rhythm: validation and beat duration (lines 405-435)           *)
(***************************************************************************)
ValidStyle(style) == IF style \in DOMAIN STYLE_CONFIGS THEN style ELSE "pop"

ValidBpmOfPop(bpm, style) ==
  IF bpm < MIN_BPM \/ bpm > MAX_BPM THEN STYLE_CONFIGS["pop"].bpm ELSE bpm

ValidBpm(bpm, style) ==
  IF bpm < MIN_BPM \/ bpm > MAX_BPM THEN STYLE_CONFIGS[style].bpm ELSE bpm

ValidNoteType(note_type) ==
  IF note_type \in DOMAIN NOTE_TYPES THEN note_type ELSE "quarter"

ValidSwing(swing) == IF swing < MIN_SWING \/ swing > MAX_SWING THEN 0 ELSE swing

ValidComplexity(complexity) ==
  IF complexity \in COMPLEXITY_LEVELS THEN complexity ELSE "medium"

ValidPatternLength(pattern_length) ==
  IF pattern_length < MinPatternLength \/ pattern_length > MaxPatternLength
    THEN DefaultPatternLength
    ELSE pattern_length

ValidTimeSignature(time_signature) ==
  IF time_signature \in TIME_SIGNATURES THEN time_signature ELSE "4/4"

ValidSubdivision(subdivision) ==
  IF subdivision \in SUBDIVISIONS THEN subdivision ELSE "straight"

\* lines 432-434
BeatDurationMs(bpm, note_type, subdivision) ==
  LET straight == (60000 * NOTE_TYPES[note_type]) \div (bpm * 8)
  IN  IF subdivision = "triplet" THEN (straight * 2) \div 3 ELSE straight

\* the parameters of generate_rhythm as the caller passes them (lines 796-812)
Params(c) ==
  [style |-> c.style, bpm |-> c.bpm, note_type |-> c.note_type, swing |-> c.swing,
   complexity |-> c.complexity, pattern_length |-> c.pattern_length,
   time_signature |-> c.time_signature, subdivision |-> c.subdivision,
   fill_frequency |-> c.fill_frequency, master_volume |-> c.master_volume,
   loop_repeats |-> c.loop_repeats, beat_duration_ms |-> 0]

\* apply_swing (lines 233-237), in whole milliseconds; nothing calls it
apply_swing(beat_idx, swing_percent, beat_duration_ms) ==
  IF swing_percent = 0 \/ beat_idx % 2 = 0
    THEN 0
    ELSE TruncDiv(swing_percent * beat_duration_ms, 200)

ValidatedSwung(p) ==
  LET style == ValidStyle(p.style)
      bpm == ValidBpm(p.bpm, style)
      note_type == ValidNoteType(p.note_type)
      subdivision == ValidSubdivision(p.subdivision)
      swing == ValidSwing(p.swing)
  IN  [p EXCEPT !.style = style,
                !.bpm = bpm,
                !.note_type = note_type,
                !.swing = swing,
                !.complexity = ValidComplexity(p.complexity),
                !.pattern_length = ValidPatternLength(p.pattern_length),
                !.time_signature = ValidTimeSignature(p.time_signature),
                !.subdivision = subdivision,
                !.beat_duration_ms = BeatDurationMs(bpm, note_type, subdivision)
                                       + apply_swing(1, swing,
                                                     BeatDurationMs(bpm, note_type, subdivision))]

Validated(p) ==
  LET style == ValidStyle(p.style)
      bpm == ValidBpm(p.bpm, style)
      note_type == ValidNoteType(p.note_type)
      subdivision == ValidSubdivision(p.subdivision)
  IN  [p EXCEPT !.style = style,
                !.bpm = bpm,
                !.note_type = note_type,
                !.swing = ValidSwing(p.swing),
                !.complexity = ValidComplexity(p.complexity),
                !.pattern_length = ValidPatternLength(p.pattern_length),
                !.time_signature = ValidTimeSignature(p.time_signature),
                !.subdivision = subdivision,
                !.beat_duration_ms = BeatDurationMs(bpm, note_type, subdivision)]

(***************************************************************************)
(* generate_rhythm: the per-beat mixing loop (lines 470-518)               *)
(***************************************************************************)
\* lines 480-483: pad or truncate the sample to the beat duration
FitFrames(sample_frames, beat_duration_ms) ==
  IF MsOf(sample_frames) < beat_duration_ms
    THEN sample_frames + Frames(create_silent_segment(beat_duration_ms - MsOf(sample_frames)))
  ELSE IF MsOf(sample_frames) > beat_duration_ms
    THEN FramesOf(beat_duration_ms)
  ELSE sample_frames

\* lines 475-483: the chosen sample with volume, pan and fitted length
Layer(instrument, smp, samples, settings, beat_duration_ms) ==
  [inst |-> instrument, smp |-> smp, src |-> samples[smp].src,
   volume |-> Get(settings.volumes, instrument, DEFAULT_VOLUME),
   pan |-> Get(settings.pan_settings, instrument, 0),
   frames |-> FitFrames(samples[smp].frames, beat_duration_ms)]

\* base.overlay(sample): the base keeps its length and gains the sample
Overlay(chunk, layer) == [chunk EXCEPT !.layers = @ \cup {layer}]

MixOneClearsBeat(acc, layer, outcome, beat_idx, beat_duration_ms) ==
  IF outcome = "overlay_failed"
    THEN [acc EXCEPT !.layer = Chunk(FramesOf(beat_duration_ms), {}, beat_idx)]
  ELSE IF outcome = "stem_failed" THEN [acc EXCEPT !.layer = Overlay(@, layer)]
  ELSE [layer |-> Overlay(acc.layer, layer),
        stems |-> [acc.stems EXCEPT ![layer.inst] =
                     @ \o <<Overlay(Chunk(FramesOf(beat_duration_ms), {}, beat_idx), layer)>>],
        has |-> TRUE]

\* lines 484-501 for one instrument with a hit; acc is (beat_layer, stems, has_content)
MixOne(acc, layer, outcome, beat_idx, beat_duration_ms) ==
  IF outcome = "overlay_failed" THEN acc
  ELSE IF outcome = "stem_failed" THEN [acc EXCEPT !.layer = Overlay(@, layer)]
  ELSE [layer |-> Overlay(acc.layer, layer),
        stems |-> [acc.stems EXCEPT ![layer.inst] =
                     @ \o <<Overlay(Chunk(FramesOf(beat_duration_ms), {}, beat_idx), layer)>>],
        has |-> TRUE]

\* lines 473-501: the instruments of instrument_samples in order; choice gives,
\* for each instrument with a hit, the sample drawn and the outcome of its try block
RECURSIVE MixInstruments(_, _, _, _, _, _, _)
MixInstruments(order, acc, choice, samples, settings, beat_idx, beat_duration_ms) ==
  IF order = <<>> THEN acc
  ELSE MixInstruments(
         Tail(order),
         IF Head(order) \in DOMAIN choice
           THEN MixOne(acc,
                       Layer(Head(order), choice[Head(order)].smp, samples[Head(order)],
                             settings, beat_duration_ms),
                       choice[Head(order)].outcome, beat_idx, beat_duration_ms)
           ELSE acc,
         choice, samples, settings, beat_idx, beat_duration_ms)

NormalizedKeepsContent(acc, norm_ok, beat_idx, beat_duration_ms) ==
  IF norm_ok
    THEN [layer |-> acc.layer, has |-> acc.has]
    ELSE [layer |-> Chunk(FramesOf(beat_duration_ms), {}, beat_idx), has |-> acc.has]

\* lines 502-513: a failed normalization replaces the beat by silence
Normalized(acc, norm_ok, beat_idx, beat_duration_ms) ==
  IF norm_ok
    THEN [layer |-> acc.layer, has |-> acc.has]
    ELSE [layer |-> Chunk(FramesOf(beat_duration_ms), {}, beat_idx), has |-> FALSE]

(***************************************************************************)
(* generate_rhythm: loop assembly (lines 520-528)                          *)
(***************************************************************************)
PadSkipped(loop, expected_duration) == loop

\* lines 527-528
PadToExpected(loop, expected_duration) ==
  IF LenMs(loop) < expected_duration
    THEN loop \o create_silent_segment(expected_duration - LenMs(loop))
    ELSE loop

AssembleLoopOnce(layers, pattern_length, beat_duration_ms, loop_repeats) ==
  PadToExpected(ListTimes(layers, IF loop_repeats >= 1 THEN 1 ELSE 0),
                pattern_length * beat_duration_ms * loop_repeats)

\* lines 521-528
AssembleLoop(layers, pattern_length, beat_duration_ms, loop_repeats) ==
  PadToExpected(ListTimes(layers, loop_repeats),
                pattern_length * beat_duration_ms * loop_repeats)

\* apply_volume (lines 248-253): the gain in hundredths of a dB
VolumeGain(volume) == IF volume = 100 THEN 0 ELSE (volume - 100) * 24

(***************************************************************************)
(* The run: main (lines 782-830), generate_rhythm and export_rhythm        *)
(***************************************************************************)
NoParams == Params([style |-> "", bpm |-> 0, note_type |-> "", swing |-> 0,
                    complexity |-> "", pattern_length |-> 0, time_signature |-> "",
                    subdivision |-> "", fill_frequency |-> 0, master_volume |-> 0,
                    loop_repeats |-> 0])

NoReturn == [arity |-> 0, loop |-> <<>>, gain |-> 0, stems |-> <<>>, patterns |-> <<>>]

\* export_rhythm has not returned; every return of export_rhythm is a bare
\* return or the end of the function (lines 563 and 597): the value is None
NoExport == [returned |-> FALSE, value |-> "None", raised |-> "none"]

\* the draws of random (lines 316-323 and 229) and the outcomes of the try
\* blocks (lines 484-513, 548-583 and 334-374) of a run, none made yet
NoLog == [draws |-> <<>>, mix |-> <<>>, loop_ok |-> TRUE, stems_ok |-> <<>>, midi_ok |-> TRUE]

NoFirst == [run |-> FALSE, cfg |-> <<>>, log |-> NoLog, pc |-> "", ret |-> NoReturn,
            exported |-> <<>>, err |-> "none"]

RunIdle ==
  /\ pc = "idle"
  /\ cfg = <<>>
  /\ instruments = <<>>
  /\ mix = <<>>
  /\ gr = NoParams
  /\ instrument_patterns = <<>>
  /\ instrument_samples = <<>>
  /\ instrument_stems = <<>>
  /\ beat_layers = <<>>
  /\ has_content = <<>>
  /\ ret = NoReturn
  /\ exported = <<>>
  /\ played = <<>>
  /\ faults = 0
  /\ err = "none"
  /\ er = NoExport
  /\ log = NoLog
  /\ first = NoFirst

IsAvailable(instrument) == instrument \in Range(AVAILABLE_INSTRUMENTS)

\* lines 782-787 and the call of line 796
StartMain ==
  /\ pc = "main"
  /\ cfg.entry = "main"
  /\ LET valid == SelectSeq(cfg.instruments, IsAvailable)
     IN  IF valid = <<>>
           THEN /\ instruments' = <<"kick", "snare">>
                /\ mix' = [volumes |-> [kick |-> DEFAULT_VOLUME, snare |-> DEFAULT_VOLUME],
                           pan_settings |-> [kick |-> 0, snare |-> 0]]
           ELSE /\ instruments' = valid
                /\ UNCHANGED mix
  /\ gr' = Params(cfg)
  /\ pc' = "validate"
  /\ UNCHANGED <<cfg, instrument_patterns, instrument_samples, instrument_stems,
                 beat_layers, has_content, ret, exported, played, faults, err>>
  /\ UNCHANGED <<er, log, first>>
  /\ UNCHANGED unitVars

\* a caller that passes its instrument list to generate_rhythm as it is and
\* unpacks the result as line 796 does
StartDirect ==
  /\ pc = "main"
  /\ cfg.entry = "direct"
  /\ gr' = Params(cfg)
  /\ pc' = "validate"
  /\ UNCHANGED <<cfg, instruments, mix, instrument_patterns, instrument_samples,
                 instrument_stems, beat_layers, has_content, ret, exported, played,
                 faults, err>>
  /\ UNCHANGED <<er, log, first>>
  /\ UNCHANGED unitVars

\* lines 405-435
Validate ==
  /\ pc = "validate"
  /\ gr' = Validated(gr)
  /\ pc' = "patterns"
  /\ UNCHANGED <<cfg, instruments, mix, instrument_patterns, instrument_samples,
                 instrument_stems, beat_layers, has_content, ret, exported, played,
                 faults, err>>
  /\ UNCHANGED <<er, log, first>>
  /\ UNCHANGED unitVars

\* a run made again takes the draws and the failures of the run before it,
\* as far as they fit what this run asks for
SameDraws(draws, asked) ==
  (first.run /\ first.log.draws \in asked) => draws = first.log.draws

SameMix(beat_idx, drawn, asked) ==
  IF first.run /\ beat_idx < Len(first.log.mix)
    THEN first.log.mix[beat_idx + 1] \in asked => drawn = first.log.mix[beat_idx + 1]
    ELSE TRUE

SameWrite(field, ok, asked) ==
  (first.run /\ first.log[field] \in asked) => ok = first.log[field]

\* the draws of one generate_pattern call of a run: the same draw at every
\* position, or the draws 0 and 1 taking turns
DrawRows(pattern_length, complexity) ==
  {[k \in 1..pattern_length |-> a] : a \in DrawSet(complexity)}
    \cup {[k \in 1..pattern_length |-> (k + a) % 2] : a \in {0, 1}}

\* lines 443-447
GeneratePatterns ==
  /\ pc = "patterns"
  /\ \E draws \in [1..Len(instruments) -> DrawRows(gr.pattern_length, gr.complexity)] :
       /\ SameDraws(draws, [1..Len(instruments) ->
                              DrawRows(gr.pattern_length, gr.complexity)])
       /\ log' = [log EXCEPT !.draws = draws]
       /\ LET rows == [k \in 1..Len(instruments) |->
                         generate_pattern(gr.complexity, gr.pattern_length,
                                          Get(STYLE_CONFIGS[gr.style].pattern, instruments[k],
                                              DefaultBasePattern),
                                          gr.fill_frequency, draws[k])]
              last(i) == CHOOSE k \in 1..Len(instruments) :
                           /\ instruments[k] = i
                           /\ \A m \in (k + 1)..Len(instruments) : instruments[m] # i
          IN  IF \E k \in 1..Len(instruments) : rows[k].raised # "none"
                THEN /\ pc' = "crashed"
                     /\ err' = rows[1].raised
                     /\ UNCHANGED instrument_patterns
                ELSE /\ pc' = "load"
                     /\ instrument_patterns' = [i \in Range(instruments) |-> rows[last(i)].pattern]
                     /\ UNCHANGED err
  /\ UNCHANGED <<cfg, instruments, mix, gr, instrument_samples, instrument_stems,
                 beat_layers, has_content, ret, exported, played, faults>>
  /\ UNCHANGED <<er, first>>
  /\ UNCHANGED unitVars

\* lines 455-469
LoadSamples ==
  /\ pc = "load"
  /\ LET loaded == [i \in Range(instruments) |-> load_samples(i, cfg.disk, cfg.numpy)]
         kept == {i \in Range(instruments) : loaded[i].samples # <<>>}
     IN  IF \E i \in Range(instruments) : loaded[i].raised # "none"
           THEN /\ pc' = "crashed"
                /\ err' = "FileNotFoundError"
                /\ UNCHANGED <<instruments, instrument_samples, instrument_stems, ret>>
           ELSE /\ instrument_samples' = [i \in kept |-> loaded[i].samples]
                /\ instruments' = SelectSeq(instruments, LAMBDA i : i \in kept)
                /\ UNCHANGED err
                /\ IF kept = {}
                     THEN /\ ret' = [arity |-> 2,
                                     loop |-> create_silent_segment(
                                                gr.pattern_length * gr.beat_duration_ms
                                                  * gr.loop_repeats),
                                     gain |-> 0, stems |-> <<>>, patterns |-> <<>>]
                          /\ pc' = "returned"
                          /\ UNCHANGED instrument_stems
                     ELSE /\ instrument_stems' = [i \in kept |-> create_silent_segment(0)]
                          /\ pc' = "mix"
                          /\ UNCHANGED ret
  /\ UNCHANGED <<cfg, mix, gr, instrument_patterns, beat_layers, has_content, exported,
                 played, faults>>
  /\ UNCHANGED <<er, log, first>>
  /\ UNCHANGED unitVars

\* the outcomes of one play_preview call (lines 256-304)
PlayOutcomes(simpleaudio) ==
  IF simpleaudio THEN {"completed", "timed_out", "failed"} ELSE {"skipped"}

PreviewedLosesFailed(beat_layer, outcome) ==
  IF outcome = "failed" THEN [beat_layer EXCEPT !.layers = {}] ELSE beat_layer

\* the caller's beat_layer after play_preview(beat_layer) (lines 514-516):
\* play_preview rebinds its own parameter only (line 261)
Previewed(beat_layer, outcome) == beat_layer

Outcomes == {"ok", "overlay_failed", "stem_failed"}

\* one iteration of the loop of line 470
MixBeat ==
  /\ pc = "mix"
  /\ LET beat_idx == Len(beat_layers)
         hits == {i \in DOMAIN instrument_samples :
                    i \in DOMAIN instrument_patterns /\ instrument_patterns[i][beat_idx + 1] # 0}
     IN  \E choice \in [hits -> [smp : 1..2, outcome : Outcomes]], norm_ok \in BOOLEAN :
           LET failed == Cardinality({i \in hits : choice[i].outcome # "ok"})
                           + (IF norm_ok THEN 0 ELSE 1)
               acc == MixInstruments(KeysInOrder(instruments, DOMAIN instrument_samples),
                                     [layer |-> Chunk(FramesOf(gr.beat_duration_ms), {}, beat_idx),
                                      stems |-> instrument_stems, has |-> FALSE],
                                     choice, instrument_samples, mix, beat_idx,
                                     gr.beat_duration_ms)
               done == Normalized(acc, norm_ok, beat_idx, gr.beat_duration_ms)
           IN  /\ \A i \in hits : choice[i].smp <= Len(instrument_samples[i])
               /\ SameMix(beat_idx, [choice |-> choice, norm_ok |-> norm_ok],
                          [choice : [hits -> [smp : 1..2, outcome : Outcomes]],
                           norm_ok : BOOLEAN])
               /\ log' = [log EXCEPT !.mix = Append(@, [choice |-> choice, norm_ok |-> norm_ok])]
               /\ faults + failed <= MaxFaults
               /\ faults' = faults + failed
               /\ instrument_stems' = acc.stems
               /\ has_content' = Append(has_content, done.has)
               /\ IF cfg.preview /\ done.has
                    THEN \E outcome \in PlayOutcomes(cfg.simpleaudio) :
                           /\ played' = Append(played, [what |-> beat_idx, outcome |-> outcome])
                           /\ beat_layers' = Append(beat_layers, Previewed(done.layer, outcome))
                    ELSE /\ UNCHANGED played
                         /\ beat_layers' = Append(beat_layers, done.layer)
               /\ pc' = IF beat_idx + 1 = gr.pattern_length THEN "assemble" ELSE "mix"
  /\ UNCHANGED <<cfg, instruments, mix, gr, instrument_patterns, instrument_samples,
                 ret, exported, err>>
  /\ UNCHANGED <<er, first>>
  /\ UNCHANGED unitVars

\* lines 520-535
Assemble ==
  /\ pc = "assemble"
  /\ ret' = [arity |-> 3,
             loop |-> AssembleLoop(beat_layers, gr.pattern_length, gr.beat_duration_ms,
                                   gr.loop_repeats),
             gain |-> VolumeGain(gr.master_volume),
             stems |-> instrument_stems,
             patterns |-> instrument_patterns]
  /\ pc' = "returned"
  /\ UNCHANGED <<cfg, instruments, mix, gr, instrument_patterns, instrument_samples,
                 instrument_stems, beat_layers, has_content, exported, played, faults, err>>
  /\ UNCHANGED <<er, log, first>>
  /\ UNCHANGED unitVars

\* lines 796 and 813-815: unpack the result, stop on an empty loop
MainUnpack ==
  /\ pc = "returned"
  /\ IF ret.arity # 3
       THEN pc' = "crashed" /\ err' = "ValueError"
       ELSE /\ pc' = IF LenMs(ret.loop) = 0 THEN "done" ELSE "export_loop"
            /\ UNCHANGED err
  /\ UNCHANGED <<cfg, instruments, mix, gr, instrument_patterns, instrument_samples,
                 instrument_stems, beat_layers, has_content, ret, exported, played, faults>>
  /\ UNCHANGED <<er, log, first>>
  /\ UNCHANGED unitVars

\* lines 544-546
ExportFormat(c) == IF c.output_format = "mp3" /\ ~c.ffmpeg THEN "wav" ELSE c.output_format

\* lines 548-563: a failed write ends export_rhythm
ExportLoop ==
  /\ pc = "export_loop"
  /\ \E write_ok \in BOOLEAN :
       /\ write_ok \/ faults < MaxFaults
       /\ SameWrite("loop_ok", write_ok, BOOLEAN)
       /\ log' = [log EXCEPT !.loop_ok = write_ok]
       /\ IF write_ok
            THEN /\ exported' = Append(exported, [kind |-> "loop", inst |-> "",
                                            format |-> ExportFormat(cfg),
                                            frames |-> Frames(ret.loop)])
                 /\ pc' = "export_stems"
                 /\ UNCHANGED <<faults, er>>
            ELSE /\ pc' = "done"
                 /\ faults' = faults + 1
                 /\ er' = [er EXCEPT !.returned = TRUE]
                 /\ UNCHANGED exported
  /\ UNCHANGED <<cfg, instruments, mix, gr, instrument_patterns, instrument_samples,
                 instrument_stems, beat_layers, has_content, ret, played, err>>
  /\ UNCHANGED first
  /\ UNCHANGED unitVars

\* lines 566-571: the stems written, in order; each is repeated loop_repeats times
RECURSIVE StemFiles(_, _, _, _, _)
StemFiles(order, stems, write_ok, loop_repeats, format) ==
  IF order = <<>> THEN <<>>
  ELSE (IF write_ok[Head(order)]
          THEN <<[kind |-> "stem", inst |-> Head(order), format |-> format,
                  frames |-> Frames(ListTimes(stems[Head(order)], loop_repeats))]>>
          ELSE <<>>)
       \o StemFiles(Tail(order), stems, write_ok, loop_repeats, format)

\* lines 565-583
ExportStems ==
  /\ pc = "export_stems"
  /\ IF cfg.export_stems
       THEN \E write_ok \in [DOMAIN ret.stems -> BOOLEAN] :
              LET failed == Cardinality({i \in DOMAIN ret.stems : ~write_ok[i]})
              IN  /\ faults + failed <= MaxFaults
                  /\ SameWrite("stems_ok", write_ok, [DOMAIN ret.stems -> BOOLEAN])
                  /\ log' = [log EXCEPT !.stems_ok = write_ok]
                  /\ faults' = faults + failed
                  /\ exported' = exported \o StemFiles(KeysInOrder(instruments, DOMAIN ret.stems),
                                                ret.stems, write_ok, cfg.loop_repeats,
                                                ExportFormat(cfg))
       ELSE UNCHANGED <<exported, faults, log>>
  /\ pc' = "export_midi"
  /\ UNCHANGED <<cfg, instruments, mix, gr, instrument_patterns, instrument_samples,
                 instrument_stems, beat_layers, has_content, ret, played, err>>
  /\ UNCHANGED <<er, first>>
  /\ UNCHANGED unitVars

\* instrument_patterns.items()
Items(order, patterns) == [k \in DOMAIN order |-> [inst |-> order[k], pattern |-> patterns[order[k]]]]

\* lines 585-587: generate_midi receives the configuration's bpm, note_type
\* and subdivision (lines 820-829)
ExportMidi ==
  /\ pc = "export_midi"
  /\ IF cfg.export_midi
       THEN \E save_ok \in BOOLEAN :
              LET result == generate_midi(
                              Items(KeysInOrder(instruments, DOMAIN ret.patterns), ret.patterns),
                              cfg.bpm, cfg.note_type, cfg.subdivision, cfg.mido, save_ok)
              IN  /\ save_ok \/ faults < MaxFaults
                  /\ SameWrite("midi_ok", save_ok, BOOLEAN)
                  /\ log' = [log EXCEPT !.midi_ok = save_ok]
                  /\ faults' = IF save_ok THEN faults ELSE faults + 1
                  /\ exported' = Append(exported, [kind |-> "midi", inst |-> "", format |-> "mid",
                                             status |-> result.status, track |-> result.track])
       ELSE UNCHANGED <<exported, faults, log>>
  /\ pc' = "playback"
  /\ UNCHANGED <<cfg, instruments, mix, gr, instrument_patterns, instrument_samples,
                 instrument_stems, beat_layers, has_content, ret, played, err>>
  /\ UNCHANGED <<er, first>>
  /\ UNCHANGED unitVars

\* lines 589-597
FinalPlayback ==
  /\ pc = "playback"
  /\ IF cfg.simpleaudio
       THEN \E outcome \in PlayOutcomes(TRUE) :
              played' = Append(played, [what |-> -1, outcome |-> outcome])
       ELSE UNCHANGED played
  /\ pc' = "done"
  /\ er' = [er EXCEPT !.returned = TRUE]
  /\ UNCHANGED <<cfg, instruments, mix, gr, instrument_patterns, instrument_samples,
                 instrument_stems, beat_layers, has_content, ret, exported, faults, err>>
  /\ UNCHANGED <<log, first>>
  /\ UNCHANGED unitVars

(***************************************************************************)
(* Runs: the base configuration and the configurations that differ from it *)
(* in one option, flag or environment condition.                           *)
(***************************************************************************)
NoDisk == [root |-> FALSE, case_sensitive |-> TRUE, dirs |-> <<>>]

KitDisk ==
  [root |-> TRUE, case_sensitive |-> TRUE,
   dirs |-> (DirName("kicks", "exact", FALSE) :> <<WavShort, WavLong>>)
              @@ (DirName("snares", "near", FALSE) :> <<WavBroken, WavLong>>)]

CasedDisk ==
  [root |-> TRUE, case_sensitive |-> TRUE,
   dirs |-> (DirName("kicks", "exact", TRUE) :> <<WavShort>>)]

BaseRun ==
  [entry |-> "main", style |-> "pop", instruments |-> <<"kick">>, bpm |-> 97,
   note_type |-> "quarter", swing |-> 0, complexity |-> "complex",
   pattern_length |-> 4, time_signature |-> "4/4", subdivision |-> "straight",
   fill_frequency |-> 4, master_volume |-> 100, loop_repeats |-> 1,
   volumes |-> [kick |-> 90, snare |-> 80, hihat |-> 70, percussion |-> 75],
   pan_settings |-> [kick |-> 0, snare |-> 3, hihat |-> -3, percussion |-> 1],
   preview |-> FALSE, export_stems |-> TRUE, export_midi |-> TRUE,
   output_format |-> "wav", numpy |-> TRUE, simpleaudio |-> FALSE, mido |-> TRUE,
   ffmpeg |-> FALSE, disk |-> NoDisk]

InstrumentInputs == {<<>>, <<"kick", "snare">>, <<"cowbell">>, <<"clap">>}

RunInputs ==
  {BaseRun}
    \cup {[BaseRun EXCEPT !.style = v] : v \in {"edm", "jazz"}}
    \cup {[BaseRun EXCEPT !.instruments = v] : v \in InstrumentInputs}
    \cup {[BaseRun EXCEPT !.entry = "direct", !.instruments = v] :
            v \in InstrumentInputs \ {<<"cowbell">>}}
    \cup {[BaseRun EXCEPT !.bpm = v] : v \in {0, 10, 120, 1000}}
    \cup {[BaseRun EXCEPT !.style = v, !.bpm = w] : v \in {"edm", "jazz"}, w \in {10, 1000}}
    \cup {[BaseRun EXCEPT !.note_type = v] : v \in {"thirty-second", "dotted"}}
    \cup {[BaseRun EXCEPT !.swing = v] : v \in {30, 99}}
    \cup {[BaseRun EXCEPT !.complexity = v] : v \in {"simple", "medium", "wild"}}
    \cup {[BaseRun EXCEPT !.pattern_length = v] : v \in {3, 5, 17}}
    \cup {[BaseRun EXCEPT !.time_signature = v] : v \in {"3/4", "5/4"}}
    \cup {[BaseRun EXCEPT !.subdivision = v] : v \in {"triplet", "swung"}}
    \cup {[BaseRun EXCEPT !.fill_frequency = v] : v \in {-10, 0, 10, 20, 30}}
    \cup {[BaseRun EXCEPT !.master_volume = v] : v \in {-5, 50, 150}}
    \cup {[BaseRun EXCEPT !.loop_repeats = v] : v \in {-1, 0, 3, 7, 11}}
    \cup {[BaseRun EXCEPT !.preview = TRUE, !.simpleaudio = v] : v \in BOOLEAN}
    \cup {[BaseRun EXCEPT !.simpleaudio = TRUE]}
    \cup {[BaseRun EXCEPT !.export_stems = FALSE]}
    \cup {[BaseRun EXCEPT !.export_midi = FALSE]}
    \cup {[BaseRun EXCEPT !.output_format = "mp3", !.ffmpeg = v] : v \in BOOLEAN}
    \cup {[BaseRun EXCEPT !.numpy = FALSE]}
    \cup {[BaseRun EXCEPT !.mido = FALSE]}
    \cup {[BaseRun EXCEPT !.disk = v] : v \in {KitDisk, CasedDisk}}
    \cup {[BaseRun EXCEPT !.disk = KitDisk, !.instruments = <<"kick", "snare">>]}

\* the runs that are made again
RerunInputs ==
  {BaseRun}
    \cup {[BaseRun EXCEPT !.instruments = <<"kick", "snare">>]}
    \cup {[BaseRun EXCEPT !.swing = v] : v \in {30, 99}}
    \cup {[BaseRun EXCEPT !.preview = TRUE, !.simpleaudio = v] : v \in BOOLEAN}
    \cup {[BaseRun EXCEPT !.simpleaudio = TRUE]}

\* the values of swing a run made again may be given
SwingInputs == {0, 30, 99}

\* the configurations of a run made again: the same options with the playback
\* device present or absent, or with another swing
Variants(c) ==
  {[c EXCEPT !.simpleaudio = ~c.simpleaudio]}
    \cup {[c EXCEPT !.swing = v] : v \in SwingInputs \ {c.swing}}

\* the program is run a second time over the same sample source
Rerun ==
  /\ pc \in {"done", "crashed"}
  /\ ~first.run
  /\ cfg \in RerunInputs
  /\ first' = [run |-> TRUE, cfg |-> cfg, log |-> log, pc |-> pc, ret |-> ret,
               exported |-> exported, err |-> err]
  /\ cfg' \in Variants(cfg)
  /\ pc' = "main"
  /\ instruments' = cfg'.instruments
  /\ mix' = [volumes |-> cfg'.volumes, pan_settings |-> cfg'.pan_settings]
  /\ gr' = NoParams
  /\ instrument_patterns' = <<>>
  /\ instrument_samples' = <<>>
  /\ instrument_stems' = <<>>
  /\ beat_layers' = <<>>
  /\ has_content' = <<>>
  /\ ret' = NoReturn
  /\ exported' = <<>>
  /\ played' = <<>>
  /\ faults' = 0
  /\ err' = "none"
  /\ er' = NoExport
  /\ log' = NoLog
  /\ UNCHANGED unitVars

Init ==
  /\ cfg \in RunInputs
  /\ pc = "main"
  /\ instruments = cfg.instruments
  /\ mix = [volumes |-> cfg.volumes, pan_settings |-> cfg.pan_settings]
  /\ gr = NoParams
  /\ instrument_patterns = <<>>
  /\ instrument_samples = <<>>
  /\ instrument_stems = <<>>
  /\ beat_layers = <<>>
  /\ has_content = <<>>
  /\ ret = NoReturn
  /\ exported = <<>>
  /\ played = <<>>
  /\ faults = 0
  /\ err = "none"
  /\ er = NoExport
  /\ log = NoLog
  /\ first = NoFirst
  /\ gp = GpIdle
  /\ gm = GmIdle
  /\ ls = LsIdle
  /\ pp = PpIdle
  /\ g1 = G1Idle

Next ==
  \/ StartMain
  \/ StartDirect
  \/ Validate
  \/ GeneratePatterns
  \/ LoadSamples
  \/ MixBeat
  \/ Assemble
  \/ MainUnpack
  \/ ExportLoop
  \/ ExportStems
  \/ ExportMidi
  \/ FinalPlayback
  \/ Rerun

Spec == Init /\ [][Next]_vars

(***************************************************************************)
(* Calls of generate_pattern on their own                                  *)
(***************************************************************************)
StylePatterns ==
  {STYLE_CONFIGS[s].pattern[i] :
     s \in DOMAIN STYLE_CONFIGS, i \in {"kick", "snare", "hihat", "bass", "synth",
                                        "guitar", "percussion"}}

BaseInputs ==
  UNION {BitSeqs(n) : n \in 1..MaxBaseLen} \cup StylePatterns \cup {DefaultBasePattern}

\* numerators of fill_frequency over 20: 0.0 .. 1.0 and values outside it
FillInputs == (0..20) \cup {-10, 30, 40}

NoPattern == [raised |-> "none", pattern |-> <<>>]


InitPattern ==
  /\ gp \in [phase : {"call"}, complexity : COMPLEXITY_LEVELS,
             pattern_length : MinPatternLength..MaxLen, base_pattern : BaseInputs,
             fill_frequency : FillInputs, result : {NoPattern}]
  /\ gm = GmIdle
  /\ ls = LsIdle
  /\ pp = PpIdle
  /\ g1 = G1Idle
  /\ RunIdle

GeneratePatternCall ==
  /\ gp.phase = "call"
  /\ \E draws \in [1..gp.pattern_length -> DrawSet(gp.complexity)] :
       gp' = [gp EXCEPT !.phase = "return",
                        !.result = generate_pattern(gp.complexity, gp.pattern_length,
                                                    gp.base_pattern, gp.fill_frequency,
                                                    draws)]
  /\ UNCHANGED <<gm, ls, pp, g1, runVars>>

NextPattern == GeneratePatternCall

SpecPattern == InitPattern /\ [][NextPattern]_vars

(***************************************************************************)
(* Calls of extend_base_pattern on their own                               *)
(***************************************************************************)
InitExtend ==
  /\ \E base_pattern \in BaseInputs :
       gp \in [phase : {"extend"}, given : {base_pattern}, base_pattern : {base_pattern},
               pattern_length : 0..MaxExtendLen, result : {<<>>}]
  /\ gm = GmIdle
  /\ ls = LsIdle
  /\ pp = PpIdle
  /\ g1 = G1Idle
  /\ RunIdle

\* the slices and the product of lines 309-310 build new lists
ExtendBasePatternCall ==
  /\ gp.phase = "extend"
  /\ gp' = [gp EXCEPT !.phase = "extended",
                      !.result = extend_base_pattern(gp.base_pattern, gp.pattern_length)]
  /\ UNCHANGED <<gm, ls, pp, g1, runVars>>

NextExtend == ExtendBasePatternCall

SpecExtend == InitExtend /\ [][NextExtend]_vars

(***************************************************************************)
(* Calls of generate_midi on their own                                     *)
(***************************************************************************)
MidiInstruments == {"kick", "snare", "percussion"}

MidiItemInputs ==
  {<<>>}
    \cup {<<[inst |-> a, pattern |-> p]>> :
            a \in MidiInstruments, p \in UNION {BitSeqs(n) : n \in 1..MaxMidiLen}}
    \cup UNION {{<<[inst |-> ab[1], pattern |-> p], [inst |-> ab[2], pattern |-> q]>> :
                   ab \in {x \in MidiInstruments \X MidiInstruments : x[1] # x[2]},
                   p \in BitSeqs(n), q \in BitSeqs(n)} : n \in 1..MaxMidiLen}

NoMidi == [status |-> "none", events |-> <<>>, track |-> <<>>]

InitMidi ==
  /\ gm \in [phase : {"call"}, items : MidiItemInputs, bpm : {0, 120},
             note_type : DOMAIN NOTE_TYPES \cup {"dotted"},
             subdivision : SUBDIVISIONS, mido_available : BOOLEAN,
             result : {NoMidi}]
  /\ gp = GpIdle
  /\ ls = LsIdle
  /\ pp = PpIdle
  /\ g1 = G1Idle
  /\ RunIdle

GenerateMidiCall ==
  /\ gm.phase = "call"
  /\ \E save_ok \in BOOLEAN :
       gm' = [gm EXCEPT !.phase = "return",
                        !.result = generate_midi(gm.items, gm.bpm, gm.note_type,
                                                 gm.subdivision, gm.mido_available,
                                                 save_ok)]
  /\ UNCHANGED <<gp, ls, pp, g1, runVars>>

NextMidi == GenerateMidiCall

SpecMidi == InitMidi /\ [][NextMidi]_vars

(***************************************************************************)
(* Calls of load_samples on their own                                      *)
(***************************************************************************)
ListingInputs ==
  {<<>>, <<TextFile>>, <<WavBroken>>, <<WavShort>>, <<WavBroken, WavLong>>,
   <<WavShort, WavLong>>}

DirNamesFor(instrument) ==
  {DirName(INSTRUMENT_TO_FOLDER[instrument], f, u) : f \in {"exact", "near"}, u \in BOOLEAN}
    \cup {DirName(INSTRUMENT_TO_FOLDER[instrument], "far", FALSE)}

\* a case-insensitive file system holds no two names differing in case only
NamesCoexist(names, case_sensitive) ==
  case_sensitive \/ \A a \in names, b \in names : Lower(a) = Lower(b) => a = b

DiskInputs(names) ==
  {[root |-> FALSE, case_sensitive |-> cs, dirs |-> <<>>] : cs \in BOOLEAN}
    \cup UNION {UNION {{[root |-> TRUE, case_sensitive |-> cs, dirs |-> dirs] :
                          dirs \in [N -> ListingInputs]} :
                        N \in {S \in SUBSET names :
                                 Cardinality(S) <= MaxDirs /\ NamesCoexist(S, cs)}} :
                 cs \in BOOLEAN}

NoSamples == [raised |-> "none", samples |-> <<>>]

InitLoad ==
  /\ \E instrument \in Range(AVAILABLE_INSTRUMENTS) :
       ls \in [phase : {"call"}, instrument : {instrument},
              disk : DiskInputs(DirNamesFor(instrument)),
              numpy_available : BOOLEAN, result : {NoSamples}]
  /\ gp = GpIdle
  /\ gm = GmIdle
  /\ pp = PpIdle
  /\ g1 = G1Idle
  /\ RunIdle

LoadSamplesCall ==
  /\ ls.phase = "call"
  /\ ls' = [ls EXCEPT !.phase = "return",
                      !.result = load_samples(ls.instrument, ls.disk, ls.numpy_available)]
  /\ UNCHANGED <<gp, gm, pp, g1, runVars>>

NextLoad == LoadSamplesCall

SpecLoad == InitLoad /\ [][NextLoad]_vars

(***************************************************************************)
(* Calls of play_preview on their own (lines 256-304).  Time is counted in *)
(* periods of the sleep of line 279 (10 ms); the sound ends when the       *)
(* device is done with it, at any time.  Any call on the playback object   *)
(* may raise.                                                              *)
(***************************************************************************)
PreviewInputs ==
  [pc : {"call"}, simpleaudio : BOOLEAN, raw_data : BOOLEAN,
   timeout : {PreviewTimeoutTicks, PlaybackTimeoutTicks}, elapsed : {0},
   playing : {FALSE}, started : {FALSE}, outcome : {"none"}]

InitPreview ==
  /\ pp \in PreviewInputs
  /\ gp = GpIdle
  /\ gm = GmIdle
  /\ ls = LsIdle
  /\ g1 = G1Idle
  /\ RunIdle

\* lines 299-304: the handler logs the error; play_preview returns
PreviewExcept(p) == [p EXCEPT !.pc = "returned", !.outcome = "failed"]

\* lines 257-259
PreviewCall ==
  /\ pp.pc = "call"
  /\ pp' = IF ~pp.simpleaudio
             THEN [pp EXCEPT !.pc = "returned", !.outcome = "skipped"]
             ELSE [pp EXCEPT !.pc = "convert"]
  /\ UNCHANGED <<gp, gm, ls, g1, runVars>>

\* lines 260-270
PreviewConvert ==
  /\ pp.pc = "convert"
  /\ \E raised \in BOOLEAN :
       pp' = IF raised THEN PreviewExcept(pp)
             ELSE IF ~pp.raw_data
               THEN [pp EXCEPT !.pc = "returned", !.outcome = "empty"]
             ELSE [pp EXCEPT !.pc = "play"]
  /\ UNCHANGED <<gp, gm, ls, g1, runVars>>

\* lines 271-277
PreviewPlay ==
  /\ pp.pc = "play"
  /\ \E raised \in BOOLEAN :
       pp' = IF raised THEN PreviewExcept(pp)
             ELSE [pp EXCEPT !.pc = "wait", !.started = TRUE, !.playing = TRUE,
                             !.elapsed = 0]
  /\ UNCHANGED <<gp, gm, ls, g1, runVars>>

\* lines 278-279: one test of the while condition and, if it holds, one sleep
PreviewWait ==
  /\ pp.pc = "wait"
  /\ \E raised \in BOOLEAN :
       pp' = IF raised THEN PreviewExcept(pp)
             ELSE IF pp.playing /\ pp.elapsed < pp.timeout
               THEN [pp EXCEPT !.elapsed = @ + 1]
             ELSE [pp EXCEPT !.pc = "after_wait"]
  /\ UNCHANGED <<gp, gm, ls, g1, runVars>>

\* lines 280-294: is_playing() or stop() may raise, and so may the report
\* that follows the stop
PreviewAfterWait ==
  /\ pp.pc = "after_wait"
  /\ \E raised \in {"none", "stop", "report"} :
       pp' = IF raised = "stop" THEN PreviewExcept(pp)
             ELSE IF raised = "report"
               THEN PreviewExcept([pp EXCEPT !.playing = FALSE])
             ELSE IF pp.playing
               THEN [pp EXCEPT !.pc = "final_stop", !.playing = FALSE,
                               !.outcome = "timed_out"]
             ELSE [pp EXCEPT !.pc = "final_stop", !.outcome = "completed"]
  /\ UNCHANGED <<gp, gm, ls, g1, runVars>>

\* lines 295-298
PreviewFinalStop ==
  /\ pp.pc = "final_stop"
  /\ \E raised \in BOOLEAN :
       pp' = IF raised THEN PreviewExcept(pp)
             ELSE [pp EXCEPT !.pc = "returned", !.playing = FALSE]
  /\ UNCHANGED <<gp, gm, ls, g1, runVars>>

\* the device has played the buffer to its end
PlaybackEnds ==
  /\ pp.pc \in {"wait", "after_wait", "final_stop"}
  /\ pp.playing
  /\ pp' = [pp EXCEPT !.playing = FALSE]
  /\ UNCHANGED <<gp, gm, ls, g1, runVars>>

\* the steps of play_preview itself
PreviewSteps ==
  \/ PreviewCall
  \/ PreviewConvert
  \/ PreviewPlay
  \/ PreviewWait
  \/ PreviewAfterWait
  \/ PreviewFinalStop

NextPreview ==
  \/ PreviewCall
  \/ PreviewConvert
  \/ PreviewPlay
  \/ PreviewWait
  \/ PreviewAfterWait
  \/ PreviewFinalStop
  \/ PlaybackEnds

SpecPreview == InitPreview /\ [][NextPreview]_vars

\* the interpreter keeps running play_preview
FairPreview == SpecPreview /\ WF_vars(PreviewSteps)

(***************************************************************************)
(* The older generator (src/RythmG_1.py): generate_rhythm, lines 134-203   *)
(***************************************************************************)
G1_AVAILABLE_INSTRUMENTS == <<"drums", "bass", "synth", "guitar">>

STYLE_PATTERNS ==
  [hiphop |-> [drums |-> <<1, 0, 1, 0, 1, 0, 1, 0>>, bass |-> <<1, 0, 0, 0, 1, 0, 0, 0>>,
               synth |-> <<0, 1, 0, 1, 0, 1, 0, 1>>, guitar |-> <<0, 0, 1, 0, 0, 0, 1, 0>>],
   lofi |-> [drums |-> <<1, 0, 0, 0, 1, 0, 0, 0>>, bass |-> <<1, 0, 0, 0, 0, 0, 0, 0>>,
             synth |-> <<1, 0, 1, 0, 1, 0, 1, 0>>, guitar |-> <<0, 0, 0, 0, 1, 0, 0, 0>>],
   edm |-> [drums |-> <<1, 0, 1, 0, 1, 0, 1, 0>>, bass |-> <<1, 1, 1, 1, 1, 1, 1, 1>>,
            synth |-> <<1, 0, 0, 0, 1, 0, 0, 0>>, guitar |-> <<0, 0, 0, 0, 0, 0, 0, 0>>],
   pop |-> [drums |-> <<1, 0, 1, 0, 1, 0, 1, 0>>, bass |-> <<1, 0, 0, 0, 1, 0, 0, 0>>,
            synth |-> <<1, 0, 1, 0, 1, 0, 1, 0>>, guitar |-> <<0, 1, 0, 1, 0, 1, 0, 1>>]]

\* line 147
G1PatternLength == 8

\* the non-empty selections of instruments, in the order of the list
G1Selections ==
  {SelectSeq(G1_AVAILABLE_INSTRUMENTS, LAMBDA i : i \in S) :
     S \in SUBSET Range(G1_AVAILABLE_INSTRUMENTS) \ {{}}}

\* the draws for one instrument's pattern: the same draw at every position,
\* or the draws 0 and 1 taking turns.  Draw 2 is random.random() >= 0.7 (the
\* base pattern's value is kept), draw 0 or 1 is random.choice([0, 1])
G1DrawRows ==
  {[k \in 1..G1PatternLength |-> a] : a \in {0, 1, 2}}
    \cup {[k \in 1..G1PatternLength |-> (k + a) % 2] : a \in {0, 1}}

\* lines 150-158: every pattern of the style is redrawn; the drums get a hit
\* at index 0 if they are selected
G1Randomized(base_patterns, draws, insts) ==
  LET drawn == [inst \in DOMAIN base_patterns |->
                  [i \in 1..G1PatternLength |->
                     IF draws[inst][i] = 2 THEN base_patterns[inst][i]
                                           ELSE draws[inst][i]]]
  IN  IF "drums" \in Range(insts) THEN [drawn EXCEPT !["drums"][1] = 1]
                                  ELSE drawn

\* lines 176-189 with every overlay and normalization succeeding: has_content
\* of each beat
G1HasContent(insts, pats) ==
  [b \in 1..G1PatternLength |->
     \E k \in DOMAIN insts :
       /\ insts[k] \in DOMAIN pats
       /\ pats[insts[k]][b] # 0]

InitOld ==
  /\ g1 \in [phase : {"call"}, style : {"hiphop", "lofi", "edm", "pop", "jazz"},
             instruments : G1Selections, randomize : BOOLEAN,
             instrument_patterns : {<<>>}, has_content : {<<>>}]
  /\ gp = GpIdle
  /\ gm = GmIdle
  /\ ls = LsIdle
  /\ pp = PpIdle
  /\ RunIdle

GenerateRhythmOld ==
  /\ g1.phase = "call"
  /\ LET style == IF g1.style \in DOMAIN STYLE_PATTERNS THEN g1.style ELSE "pop"
     IN  \E draws \in [DOMAIN STYLE_PATTERNS[style] -> G1DrawRows] :
           LET pats ==
                 IF g1.randomize
                   THEN G1Randomized(STYLE_PATTERNS[style], draws, g1.instruments)
                   ELSE STYLE_PATTERNS[style]
           IN  g1' = [g1 EXCEPT !.phase = "return",
                                !.instrument_patterns = pats,
                                !.has_content = G1HasContent(g1.instruments, pats)]
  /\ UNCHANGED <<gp, gm, ls, pp, runVars>>

NextOld == GenerateRhythmOld

SpecOld == InitOld /\ [][NextOld]_vars

(***************************************************************************)
(* Claims about load_samples                                               *)
(***************************************************************************)
\* C7: load_samples returns a non-empty list for every supported instrument
\* and every state of the sample source (root missing, directory missing,
\* empty, without decodable .wav files, reachable by fuzzy match only, named
\* with different letter case) with NumPy available or not.
C7_LoadSamplesNeverEmpty ==
  ls.phase = "return" =>
    /\ ls.result.raised = "none"
    /\ ls.result.samples # <<>>

(***************************************************************************)
(* Claims about generate_pattern                                           *)
(***************************************************************************)
GpReturned == gp.phase = "return"

\* the fill stride int(1 / fill_frequency) is an integer >= 1
GpStrideOk ==
  gp.complexity = "complex" =>
    gp.fill_frequency # 0 /\ FillStride(gp.fill_frequency) >= 1

\* C1: for every complexity, every pattern_length in range, every base
\* pattern and every outcome of the draws (fill stride >= 1), generate_pattern
\* returns a 0/1 sequence of length exactly pattern_length whose index 0 is 1.
C1_PatternShape ==
  (GpReturned /\ GpStrideOk) =>
    /\ gp.result.raised = "none"
    /\ Len(gp.result.pattern) = gp.pattern_length
    /\ gp.result.pattern[1] = 1
    /\ \A i \in 1..Len(gp.result.pattern) : gp.result.pattern[i] \in {0, 1}

\* a complex pattern of the largest length over a base whose index 0 is a rest
C1_Witness ==
  /\ GpReturned
  /\ gp.complexity = "complex"
  /\ gp.fill_frequency = 4
  /\ gp.pattern_length = MaxLen
  /\ gp.base_pattern[1] = 0
  /\ gp.result.raised = "none"
  /\ gp.result.pattern[1] = 1
  /\ \E i \in 2..MaxLen : gp.result.pattern[i] = 0

\* C6: for every fill_frequency in 0.0 .. 1.0 inclusive, generate_pattern
\* with complexity "complex" returns a pattern instead of raising an error.
C6_ComplexReturnsOnDocumentedRange ==
  (GpReturned /\ gp.complexity = "complex" /\ gp.fill_frequency \in 0..20) =>
    gp.result.raised = "none"

(***************************************************************************)
(* Claims about generate_midi                                              *)
(***************************************************************************)
\* the call reached the event-building loop of lines 343-360
GmBuilt ==
  /\ gm.phase = "return"
  /\ gm.mido_available
  /\ gm.bpm # 0
  /\ gm.note_type \in DOMAIN NOTE_TYPES

GmEvents == gm.result.events

GmCount(type, note, time) ==
  Cardinality({j \in DOMAIN GmEvents :
                 /\ GmEvents[j].msg.type = type
                 /\ GmEvents[j].msg.note = note
                 /\ GmEvents[j].time = time})

GmHits ==
  {<<k, i>> \in (DOMAIN gm.items) \X (0..(MaxMidiLen + 1)) :
     i < Len(gm.items[k].pattern) /\ gm.items[k].pattern[i + 1] # 0}

GmTotalHits == SumSeq([k \in DOMAIN gm.items |-> SumSeq(gm.items[k].pattern)])

\* C9: generate_midi builds exactly one note-on at tick i * note_duration and
\* one note-off at tick i * note_duration + note_duration for each
\* (instrument, index i) that is a hit, with note number 36 + the instrument's
\* index in AVAILABLE_INSTRUMENTS, and no other note events; the number of
\* note-ons equals the number of note-offs equals the total hit count.
C9_MidiEventsMatchHits ==
  GmBuilt =>
    LET nd == NoteDuration(gm.note_type, gm.subdivision)
        note(k) == 36 + IndexOf(AVAILABLE_INSTRUMENTS, gm.items[k].inst)
        ons == {j \in DOMAIN GmEvents : GmEvents[j].msg.type = "note_on"}
        offs == {j \in DOMAIN GmEvents : GmEvents[j].msg.type = "note_off"}
    IN  /\ \A h \in GmHits :
             /\ GmCount("note_on", note(h[1]), h[2] * nd) = 1
             /\ GmCount("note_off", note(h[1]), h[2] * nd + nd) = 1
        /\ \A j \in ons :
             \E h \in GmHits : /\ GmEvents[j].msg.note = note(h[1])
                               /\ GmEvents[j].time = h[2] * nd
        /\ \A j \in offs :
             \E h \in GmHits : /\ GmEvents[j].msg.note = note(h[1])
                               /\ GmEvents[j].time = h[2] * nd + nd
        /\ ons \cup offs = DOMAIN GmEvents
        /\ Cardinality(ons) = GmTotalHits
        /\ Cardinality(offs) = GmTotalHits
        /\ Len(gm.result.track) = 1 + Len(GmEvents)
        /\ \A j \in DOMAIN GmEvents :
             /\ gm.result.track[j + 1].type = GmEvents[j].msg.type
             /\ gm.result.track[j + 1].note = GmEvents[j].msg.note

\* two instruments with hits, triplet eighths: note-ons and note-offs were built
C9_Witness ==
  /\ GmBuilt
  /\ Len(gm.items) = 2
  /\ gm.note_type = "eighth"
  /\ gm.subdivision = "triplet"
  /\ GmTotalHits = 2 * MaxMidiLen
  /\ Len(GmEvents) = 4 * MaxMidiLen
  /\ \E j \in DOMAIN GmEvents : GmEvents[j].msg.note = 44 /\ GmEvents[j].time = 160

\* C10: the events appended to the track are in non-decreasing absolute-tick
\* order, every delta-time is >= 0, and the running sum of delta-times up to
\* each event equals that event's absolute tick.
C10_MidiDeltasOrdered ==
  GmBuilt =>
    /\ \A j \in 1..(Len(GmEvents) - 1) : GmEvents[j].time <= GmEvents[j + 1].time
    /\ \A j \in DOMAIN gm.result.track : gm.result.track[j].time >= 0
    /\ \A j \in DOMAIN GmEvents :
         SumSeq([m \in 1..(j + 1) |-> gm.result.track[m].time]) = GmEvents[j].time

\* the sort interleaved two instruments: the later instrument's first note-on
\* is emitted before the earlier instrument's last event
C10_Witness ==
  /\ GmBuilt
  /\ Len(gm.items) = 2
  /\ Len(GmEvents) >= 4
  /\ \E j \in 1..(Len(GmEvents) - 1) :
       /\ GmEvents[j].msg.note = 36 + IndexOf(AVAILABLE_INSTRUMENTS, gm.items[2].inst)
       /\ GmEvents[j + 1].msg.note = 36 + IndexOf(AVAILABLE_INSTRUMENTS, gm.items[1].inst)
       /\ GmEvents[j].time < GmEvents[j + 1].time
  /\ \E j \in DOMAIN gm.result.track : gm.result.track[j].time > 0

(***************************************************************************)
(* Claims about the run                                                    *)
(***************************************************************************)
\* the mixing loop of generate_rhythm has just ended
MixingDone == pc = "assemble"

ExpectedDuration == gr.pattern_length * gr.beat_duration_ms * gr.loop_repeats

\* C2: after the full per-beat mixing loop every selected instrument's stem
\* holds exactly one beat_duration_ms segment per beat index 0..pattern_length-1
\* (a silent one where the instrument has no hit), so the stem lasts
\* pattern_length x beat_duration_ms and segment k lines up with beat slot k.
C2_StemsHoldEveryBeat ==
  MixingDone =>
    \A i \in DOMAIN instrument_stems :
      /\ Len(instrument_stems[i]) = gr.pattern_length
      /\ \A k \in DOMAIN instrument_stems[i] : instrument_stems[i][k].beat = k - 1
      /\ LenMs(instrument_stems[i]) = gr.pattern_length * gr.beat_duration_ms

HasBadOption(c) ==
  \/ c.style \notin {"hiphop", "lofi", "edm", "pop"}
  \/ c.bpm < 20 \/ c.bpm > 300
  \/ c.note_type \notin {"whole", "half", "quarter", "eighth", "sixteenth", "thirty-second"}
  \/ c.swing < -50 \/ c.swing > 50
  \/ c.complexity \notin {"simple", "medium", "complex"}
  \/ c.pattern_length < 4 \/ c.pattern_length > 16
  \/ c.time_signature \notin {"4/4", "3/4", "6/8"}
  \/ c.subdivision \notin {"straight", "triplet"}
  \/ c.fill_frequency < 0 \/ c.fill_frequency > 20
  \/ c.master_volume < 0 \/ c.master_volume > 100
  \/ c.loop_repeats < 1 \/ c.loop_repeats > 10

Written(kind) == \E k \in DOMAIN exported : exported[k].kind = kind

\* C4: for any out-of-range or unrecognized value of a recognized option, a
\* generation-and-export run recovers by clamping or defaulting and runs to
\* completion: no such value makes generation or a requested export abort.
C4_BadOptionsRecovered ==
  (cfg.entry = "main" /\ HasBadOption(cfg) /\ faults = 0) =>
    /\ pc # "crashed"
    /\ pc = "done" =>
         /\ Written("loop")
         /\ (cfg.export_midi /\ cfg.mido) =>
              \E k \in DOMAIN exported :
                exported[k].kind = "midi" /\ exported[k].status = "saved"

\* how many times the returned loop repeats the beat sequence
RepeatsInLoop == Cardinality({k \in DOMAIN ret.loop : ret.loop[k].beat = 0})

\* C5: the loop_repeats value used to repeat the beat sequence in
\* generate_rhythm and the stems in export_rhythm is always within 1..10,
\* whatever value the configuration supplies.
C5_LoopRepeatsClamped ==
  ret.arity = 3 =>
    /\ RepeatsInLoop \in 1..10
    /\ gr.loop_repeats \in 1..10
    /\ Written("stem") => cfg.loop_repeats \in 1..10

\* generate_rhythm returned through the "no valid instruments" branch
SilentReturn == ret.arity # 0 /\ DOMAIN instrument_samples = {}

\* C8: when no instrument has any usable sample, generate_rhythm returns a
\* silent loop of pattern_length x beat_duration_ms x loop_repeats and its
\* caller continues without an error: the return value is the
\* (loop, stems, patterns) triple the caller unpacks.
C8_SilentReturnUnpacks ==
  SilentReturn =>
    /\ LenMs(ret.loop) = gr.pattern_length * gr.beat_duration_ms * gr.loop_repeats
    /\ ret.loop # <<>> => ret.loop[1].layers = {}
    /\ pc # "crashed"

\* the instruments with a hit at beat b (b counts from 1, as the slots do)
HitsAt(b) ==
  {i \in DOMAIN instrument_samples :
     i \in DOMAIN instrument_patterns /\ instrument_patterns[i][b] # 0}

OutcomeAt(b, i) == log.mix[b].choice[i].outcome

\* the instruments whose sample the beat slot b carries
InSlot(b) == {l.inst : l \in beat_layers[b].layers}

\* the slot of beat b holds what the outcomes of beat b alone give: every
\* instrument with a hit whose overlay did not fail, and nothing else
SlotOwnOutcome(b) ==
  /\ DOMAIN log.mix[b].choice = HitsAt(b)
  /\ InSlot(b) = {i \in HitsAt(b) : OutcomeAt(b, i) # "overlay_failed"}
  /\ beat_layers[b].frames = FramesOf(gr.beat_duration_ms)
  /\ beat_layers[b].beat = b - 1

\* C11: when the overlay of one instrument fails at one beat, only that
\* instrument's contribution to that beat is dropped: the slot still holds
\* every other instrument with a hit at that beat, the instruments after the
\* failed one are still processed (their stems gain the beat's segment), and
\* every other slot holds what its own outcomes give.
C11_OverlayFailureIsLocal ==
  \A b \in DOMAIN beat_layers :
    log.mix[b].norm_ok =>
      /\ SlotOwnOutcome(b)
      /\ \A i \in HitsAt(b) :
           /\ OutcomeAt(b, i) = "overlay_failed" => i \notin InSlot(b)
           /\ OutcomeAt(b, i) = "ok" =>
                /\ i \in InSlot(b)
                /\ \E k \in DOMAIN instrument_stems[i] :
                     /\ instrument_stems[i][k].beat = b - 1
                     /\ instrument_stems[i][k].layers # {}

\* the overlay of the first instrument failed at a beat where the second one
\* has a hit too: the slot carries the second instrument only
C11_Witness ==
  /\ pc = "assemble"
  /\ faults = 1
  /\ instruments = <<"kick", "snare">>
  /\ \E b \in DOMAIN beat_layers :
       /\ HitsAt(b) = {"kick", "snare"}
       /\ OutcomeAt(b, "kick") = "overlay_failed"
       /\ OutcomeAt(b, "snare") = "ok"
       /\ InSlot(b) = {"snare"}
       /\ \A c \in DOMAIN beat_layers \ {b} : InSlot(c) = HitsAt(c)

\* no preview was played for beat b
NotPreviewed(b) == \A k \in DOMAIN played : played[k].what # b - 1

\* C12: when the normalization of beat slot i fails, the slot stored for i is
\* a silent segment of beat_duration_ms with has_content false, so no preview
\* is played for it; exactly pattern_length slots are stored at the end of the
\* loop, and the slots of the other indices are unaffected.
C12_NormalizeFailureIsLocal ==
  /\ Len(has_content) = Len(beat_layers)
  /\ MixingDone => Len(beat_layers) = gr.pattern_length
  /\ \A b \in DOMAIN beat_layers :
       IF log.mix[b].norm_ok
         THEN /\ SlotOwnOutcome(b)
              /\ has_content[b] = (\E i \in HitsAt(b) : OutcomeAt(b, i) = "ok")
         ELSE /\ beat_layers[b].layers = {}
              /\ LenMs(<<beat_layers[b]>>) = gr.beat_duration_ms
              /\ has_content[b] = FALSE
              /\ NotPreviewed(b)

\* a beat with a mixed-in hit lost its normalization while previews were on
\* and played for other beats
C12_Witness ==
  /\ MixingDone
  /\ cfg.preview
  /\ cfg.simpleaudio
  /\ \E b \in DOMAIN beat_layers :
       /\ ~log.mix[b].norm_ok
       /\ \E i \in HitsAt(b) : OutcomeAt(b, i) = "ok"
       /\ beat_layers[b].layers = {}
       /\ ~has_content[b]
       /\ \E c \in DOMAIN beat_layers \ {b} : has_content[c] /\ ~NotPreviewed(c)

\* generate_rhythm is past its validation
GrValidated == pc \notin {"idle", "main", "validate"}

\* C13: for a requested bpm outside 20..300 the bpm used for beat_duration_ms
\* is the default bpm of the effective style (the requested style if
\* recognized, "pop" otherwise); a bpm inside 20..300 is used unchanged.
C13_BpmClampedToStyleDefault ==
  GrValidated =>
    LET effective == IF cfg.style \in DOMAIN STYLE_CONFIGS THEN cfg.style ELSE "pop"
        used == IF cfg.bpm >= 20 /\ cfg.bpm <= 300
                  THEN cfg.bpm
                  ELSE STYLE_CONFIGS[effective].bpm
        beats == (60000 * NOTE_TYPES[gr.note_type]) \div (used * 8)
    IN  /\ gr.bpm = used
        /\ gr.beat_duration_ms =
             IF gr.subdivision = "triplet" THEN (beats * 2) \div 3 ELSE beats

\* bpm 1000 with style "edm": 128 bpm, a beat of 468 ms
C13_Witness ==
  /\ GrValidated
  /\ cfg.style = "edm"
  /\ cfg.bpm = 1000
  /\ gr.bpm = 128
  /\ gr.beat_duration_ms = 468

\* a write of the loop, of a stem or of the note-event file failed
WriteFailed ==
  \/ ~log.loop_ok
  \/ \E i \in DOMAIN log.stems_ok : ~log.stems_ok[i]
  \/ /\ ~log.midi_ok
     /\ \E k \in DOMAIN exported :
          /\ exported[k].kind = "midi"
          /\ exported[k].status = "failed"
          /\ Len(exported[k].track) >= 1

\* what the caller of export_rhythm gets from the call
ExportGave == <<er.value, er.raised>>

\* what the caller gets from a call in which every write succeeded
SuccessfulExportGives == <<"None", "none">>

\* C14: when a write of the mixed loop, of a stem or of the note-event file
\* fails in export_rhythm, the failure is reported to the caller (the caller
\* can tell the failed export from a successful one), the in-memory loop is
\* unchanged and no error propagates out of export_rhythm.
C14_WriteFailureReported ==
  (er.returned /\ WriteFailed) =>
    /\ er.raised = "none"
    /\ ret.loop = AssembleLoop(beat_layers, gr.pattern_length, gr.beat_duration_ms,
                               gr.loop_repeats)
    /\ ExportGave # SuccessfulExportGives

\* the run has ended
RunEnded == pc \in {"done", "crashed"}

\* this run and the run before it ended with the same loop, stems, patterns
\* and exported files
SameOutputs ==
  /\ pc = first.pc
  /\ err = first.err
  /\ ret = first.ret
  /\ exported = first.exported

\* C15: two generation-and-export runs that differ only in whether the
\* playback device is available, or in the outcome (completed, failed, timed
\* out) of each preview and final playback call, with the same random draws
\* and sample source, give the same loop, stems, patterns and exported files.
C15_PlaybackChangesNoOutput ==
  (first.run /\ RunEnded /\ [cfg EXCEPT !.simpleaudio = first.cfg.simpleaudio] = first.cfg) =>
    SameOutputs

\* a run without playback device made again with one: a preview failed,
\* another timed out, and the files written are those of the first run
C15_Witness ==
  /\ first.run
  /\ pc = "done"
  /\ cfg.preview
  /\ cfg.simpleaudio
  /\ ~first.cfg.simpleaudio
  /\ \E k \in DOMAIN played : played[k].what >= 0 /\ played[k].outcome = "failed"
  /\ \E k \in DOMAIN played : played[k].what >= 0 /\ played[k].outcome = "timed_out"
  /\ \E k \in DOMAIN exported : exported[k].kind = "stem"
  /\ SameOutputs

LsTone ==
  << [src |-> IF ls.numpy_available THEN "tone" ELSE "silence",
      frames |-> FramesOf(200),
      freq |-> IF ls.numpy_available
                 THEN 200 + 100 * IndexOf(AVAILABLE_INSTRUMENTS, ls.instrument)
                 ELSE 0] >>

\* what a directory gives: its decodable .wav files, the tone if there are none
LsFrom(d) ==
  IF LoadedFiles(ls.disk.dirs[d]) = <<>> THEN LsTone ELSE LoadedFiles(ls.disk.dirs[d])

\* C17: load_samples uses the samples of the exactly named directory whenever
\* it exists, a fuzzy-matched directory (similarity >= 0.8) only when the exact
\* one is absent, and returns exactly one synthetic tone of frequency
\* 200 + 100 x the instrument's index when there is no match or the chosen
\* directory is empty or holds no decodable .wav file.
C17_ResolutionOrder ==
  ls.phase = "return" =>
    LET folder == DirName(INSTRUMENT_TO_FOLDER[ls.instrument], "exact", FALSE)
        exact == {d \in DOMAIN ls.disk.dirs :
                    d = folder \/ (~ls.disk.case_sensitive /\ Lower(d) = folder)}
        fuzzy == {d \in DOMAIN ls.disk.dirs : Ratio(Lower(d), folder) >= 80}
    IN  /\ ls.result.raised = "none"
        /\ IF ~ls.disk.root THEN ls.result.samples = LsTone
           ELSE IF exact # {} THEN \E d \in exact : ls.result.samples = LsFrom(d)
           ELSE IF fuzzy # {} THEN \E d \in fuzzy : ls.result.samples = LsFrom(d)
           ELSE ls.result.samples = LsTone

\* C18: for a base pattern of length L >= 1 and every N, extend_base_pattern
\* returns a sequence of length exactly N whose element i is
\* base_pattern[i mod L], and it does not modify base_pattern.
C18_ExtendIsCyclic ==
  gp.phase = "extended" =>
    /\ Len(gp.result) = gp.pattern_length
    /\ \A i \in 0..(gp.pattern_length - 1) :
         gp.result[i + 1] = gp.given[(i % Len(gp.given)) + 1]
    /\ gp.base_pattern = gp.given

\* a base pattern of length 3 extended to 8: two full repetitions and the
\* first two elements
C18_Witness ==
  /\ gp.phase = "extended"
  /\ gp.given = <<1, 0, 0>>
  /\ gp.pattern_length = 8
  /\ gp.result = <<1, 0, 0, 1, 0, 0, 1, 0>>

\* C19: for complexity "complex" with stride s = int(1 / fill_frequency) >= 1,
\* generate_pattern forces a hit at every index length - 1 - k * s that is
\* >= 1, whatever the draws; with fill_frequency 1.0 every position is a hit.
C19_ComplexFillsForced ==
  (GpReturned /\ gp.complexity = "complex" /\ gp.fill_frequency >= 1
     /\ 20 \div gp.fill_frequency >= 1) =>
    LET s == 20 \div gp.fill_frequency
    IN  /\ gp.result.raised = "none"
        /\ \A k \in 0..gp.pattern_length :
             (gp.pattern_length - 1 - k * s >= 1) =>
               gp.result.pattern[gp.pattern_length - k * s] = 1
        /\ gp.fill_frequency = 20 =>
             \A i \in 1..gp.pattern_length : gp.result.pattern[i] = 1

\* fill_frequency 0.5 over a base of rests with every draw a rest: the hits
\* are the forced ones, indices 5, 3 and 1 and the downbeat
C19_Witness ==
  /\ GpReturned
  /\ gp.complexity = "complex"
  /\ gp.fill_frequency = 10
  /\ gp.pattern_length = 6
  /\ gp.base_pattern = <<0>>
  /\ gp.result.pattern = <<1, 1, 0, 1, 0, 1>>

\* C20: for complexity "medium" and every pattern_length in 4..16,
\* generate_pattern returns a pattern with hits at index 0 and at index
\* pattern_length // 2, whatever the draws and the base pattern; every other
\* position is 0 or 1.
C20_MediumForcedHits ==
  (GpReturned /\ gp.complexity = "medium" /\ gp.pattern_length >= 4
     /\ gp.pattern_length <= 16) =>
    /\ gp.result.raised = "none"
    /\ Len(gp.result.pattern) = gp.pattern_length
    /\ gp.result.pattern[1] = 1
    /\ gp.result.pattern[(gp.pattern_length \div 2) + 1] = 1
    /\ \A i \in 1..gp.pattern_length : gp.result.pattern[i] \in {0, 1}

\* over a base of hits the draws made every position a rest: only index 0 and
\* index 3 of six are hits
C20_Witness ==
  /\ GpReturned
  /\ gp.complexity = "medium"
  /\ gp.pattern_length = 6
  /\ gp.base_pattern = <<1, 1, 1>>
  /\ gp.result.pattern = <<1, 0, 0, 1, 0, 0>>

\* C21: beat slots are produced one at a time in increasing index order, and
\* the returned loop is that slot sequence concatenated loop_repeats times:
\* the segment at position r x pattern_length + i is the stored slot of index
\* i, followed at most by the trailing silence that makes up the duration.
C21_LoopIsSlotsRepeated ==
  /\ Len(beat_layers) <= gr.pattern_length
  /\ \A b \in DOMAIN beat_layers : beat_layers[b].beat = b - 1
  /\ ret.arity = 3 =>
       LET repeats == IF gr.loop_repeats >= 0 THEN gr.loop_repeats ELSE 0
       IN  /\ Len(beat_layers) = gr.pattern_length
           /\ Len(ret.loop) \in {repeats * gr.pattern_length, repeats * gr.pattern_length + 1}
           /\ \A r \in 0..(repeats - 1), i \in 0..(gr.pattern_length - 1) :
                ret.loop[r * gr.pattern_length + i + 1] = beat_layers[i + 1]
           /\ \A k \in (repeats * gr.pattern_length + 1)..Len(ret.loop) :
                ret.loop[k].layers = {} /\ ret.loop[k].beat = -1

\* three repeats of four slots, the first with a sample and another silent
C21_Witness ==
  /\ ret.arity = 3
  /\ gr.loop_repeats = 3
  /\ gr.pattern_length = 4
  /\ Len(ret.loop) >= 12
  /\ ret.loop[9] = beat_layers[1]
  /\ ret.loop[9].layers # {}
  /\ \E i \in 2..4 : ret.loop[8 + i].layers = {} /\ ret.loop[8 + i].beat = i - 1

\* C24: the bpm, note_type and subdivision export_rhythm hands to
\* generate_midi are the validated values generate_rhythm computed
\* beat_duration_ms from: the note-event file is the one generate_midi builds
\* from the validated values.
C24_MidiUsesValidatedTiming ==
  \A k \in DOMAIN exported :
    (exported[k].kind = "midi" /\ cfg.mido) =>
      exported[k].track =
        generate_midi(Items(KeysInOrder(instruments, DOMAIN ret.patterns), ret.patterns),
                      gr.bpm, gr.note_type, gr.subdivision, TRUE, TRUE).track

\* the stem of instrument i holds a segment with its sample for beat b
InStem(b, i) ==
  \E k \in DOMAIN instrument_stems[i] :
    instrument_stems[i][k].beat = b - 1 /\ instrument_stems[i][k].layers # {}

\* C25: at every beat and for every instrument the beat-slot update and the
\* stem update are all-or-nothing (the sample is in the slot if and only if a
\* segment with it is in the stem), and has_content is true for the beat
\* exactly when a sample was mixed into the slot, also when the overlay or
\* the stem append fails.
C25_SlotAndStemTogether ==
  \A b \in DOMAIN beat_layers :
    log.mix[b].norm_ok =>
      /\ \A i \in DOMAIN instrument_stems : (i \in InSlot(b)) = InStem(b, i)
      /\ has_content[b] = (InSlot(b) # {})

\* the events of one note number up to event j
GmBefore(j, type) ==
  Cardinality({m \in 1..(j - 1) :
                 /\ GmEvents[m].msg.note = GmEvents[j].msg.note
                 /\ GmEvents[m].msg.type = type})

\* C26: in the event sequence generate_midi writes, the note-on and note-off
\* events of every note number strictly alternate starting with a note-on;
\* with hits at consecutive indices the note-off of the first comes before
\* the note-on of the second at the same tick.
C26_NoteOnOffAlternate ==
  GmBuilt =>
    \A j \in DOMAIN GmEvents :
      IF GmEvents[j].msg.type = "note_on"
        THEN GmBefore(j, "note_on") = GmBefore(j, "note_off")
        ELSE GmBefore(j, "note_on") = GmBefore(j, "note_off") + 1

\* hits at consecutive indices: the note-off of the first and the note-on of
\* the second carry the same tick, the note-off first
C26_Witness ==
  /\ GmBuilt
  /\ Len(gm.items) = 2
  /\ gm.items[1].pattern = <<1, 1, 1>>
  /\ \E j \in 1..(Len(GmEvents) - 1), m \in DOMAIN GmEvents :
       /\ j < m
       /\ GmEvents[j].msg.type = "note_off"
       /\ GmEvents[m].msg.type = "note_on"
       /\ GmEvents[j].msg.note = GmEvents[m].msg.note
       /\ GmEvents[j].time = GmEvents[m].time

(***************************************************************************)
(* Claims about play_preview and about the older generator                 *)
(***************************************************************************)
\* C22: every call of play_preview eventually returns; its wait loop ends as
\* soon as the playback finishes or the elapsed time reaches the timeout; and
\* when play_preview returns after having started playback, the playback has
\* been stopped, whether it completed, timed out or raised an error.
C22_PreviewReturnsStopped ==
  /\ <>(pp.pc = "returned")
  /\ [](pp.elapsed <= pp.timeout)
  /\ [](pp.pc = "after_wait" => (~pp.playing \/ pp.elapsed >= pp.timeout))
  /\ []((pp.pc = "returned" /\ pp.started) => ~pp.playing)

\* C23: in the older generator, generate_rhythm with randomize=True gives
\* randomized patterns with at least one hit among the selected instruments,
\* so the loop is never entirely silent, for every non-empty selection of
\* instruments and every outcome of the draws.
C23_RandomizedNeverSilent ==
  (g1.phase = "return" /\ g1.randomize) =>
    /\ \E k \in DOMAIN g1.instruments, b \in 1..G1PatternLength :
         g1.instrument_patterns[g1.instruments[k]][b] # 0
    /\ \E b \in 1..G1PatternLength : g1.has_content[b]

====
